---- MODULE Spec2Model ----
(***************************************************************************)
(* A model of simpleblog's server.go: the blog_posts and hello_letters     *)
(* tables, the uploads directory, and the HTTP handlers that read and      *)
(* write them.  Every database statement and every stored file is one      *)
(* atomic step; handlers that issue several of them (handleCreatePost,     *)
(* handleBlog) take several steps and interleave with other requests.      *)
(***************************************************************************)
EXTENDS Integers, Sequences, FiniteSets, TLC

VARIABLES
    blog_posts,     \* rows of table blog_posts, in insertion order
    hello_letters,  \* rows of table hello_letters, in insertion order
    uploads,        \* the uploads directory: file name -> content
    now,            \* the last value time.Now().UnixNano() returned
    cw,             \* handleCreatePost: one record per request worker
    nreq,           \* number of /create/post requests received so far
    given,          \* history: what insertPost was called with, per stored row
    issued,         \* history: every reference saveImages returned, with its data
    getRet,         \* handlePost: the last response and what getPost returned
    blog,           \* handleBlog: the request in progress or last answered
    mainRet,        \* handleMain: the last response and what getMessages returned
    calc            \* the last-page computation on its own: input and result

vars == <<blog_posts, hello_letters, uploads, now, cw, nreq, given, issued,
          getRet, blog, mainRet, calc>>

(***************************************************************************)
(* Bounds of the model.                                                    *)
(***************************************************************************)
MaxRequests == 2
MaxClock == 3
MaxLettersBeside == 1
MaxPosts == 4
MaxPage == 3
MaxLetters == 6
MaxTotal == 24
MaxPageSize == 5

(***************************************************************************)
(* Program constants.                                                      *)
(***************************************************************************)
TitleMax == 200
NameMax == 45
EmailMax == 45
perPage == 3
MessagesLimit == 5

Workers == {1, 2}

(***************************************************************************)
(* Strings.  Form values are modelled by their shape with respect to the  *)
(* schema's VARCHAR(n) columns: a run of non-space characters followed by  *)
(* a run of spaces.                                                        *)
(***************************************************************************)
Str(n, s) == [chars |-> n, spaces |-> s]

StrLen(v) == v.chars + v.spaces

\* Assignment of a value to a VARCHAR(n) column: stored as is when it fits;
\* when only spaces exceed n they are cut off; otherwise the statement fails.
VarcharAssign(v, n) ==
    IF StrLen(v) <= n THEN [ok |-> TRUE, val |-> v]
    ELSE IF StrLen(v) - n <= v.spaces
         THEN [ok |-> TRUE, val |-> Str(v.chars, v.spaces - (StrLen(v) - n))]
         ELSE [ok |-> FALSE, val |-> v]

(***************************************************************************)
(* Go slices and pq.Array.  A slice is nil or holds elements; pq.Array     *)
(* sends a nil slice as SQL NULL and any other as an array of its          *)
(* elements, and scans NULL back to nil.                                   *)
(***************************************************************************)
NilSlice == [isNil |-> TRUE, elems |-> <<>>]

GoAppend(s, x) == [isNil |-> FALSE, elems |-> Append(s.elems, x)]

ArrayValue(s) ==
    IF s.isNil THEN [null |-> TRUE, elems |-> <<>>]
    ELSE [null |-> FALSE, elems |-> s.elems]

ArrayScan(v) ==
    IF v.null THEN NilSlice ELSE [isNil |-> FALSE, elems |-> v.elems]

(***************************************************************************)
(* Upload names: strconv.FormatInt(t, 10) + filepath.Ext(filename).        *)
(***************************************************************************)
Digits == <<"0", "1", "2", "3", "4", "5", "6", "7", "8", "9">>

RECURSIVE FormatInt(_)
FormatInt(n) ==
    IF n < 10 THEN <<Digits[n + 1]>>
    ELSE FormatInt(n \div 10) \o <<Digits[(n % 10) + 1]>>

RECURSIVE ExtFrom(_, _)
ExtFrom(path, i) ==
    IF i < 1 \/ path[i] = "/" THEN <<>>
    ELSE IF path[i] = "." THEN SubSeq(path, i, Len(path))
    ELSE ExtFrom(path, i - 1)

Ext(path) == ExtFrom(path, Len(path))

UploadName(t, filename) == FormatInt(t) \o Ext(filename)

UploadRef(name) == <<"/uploads/">> \o name

\* os.Create + io.Copy: the file of that name now holds data, whatever it held.
WriteFile(dir, name, data) ==
    [n \in DOMAIN dir \cup {name} |-> IF n = name THEN data ELSE dir[n]]

(***************************************************************************)
(* The database.                                                           *)
(***************************************************************************)
\* DEFAULT NOW(): not before the newest row's date, and possibly equal to it.
NowDates(table) ==
    IF table = <<>> THEN {1}
    ELSE {table[Len(table)].date, table[Len(table)].date + 1}

\* The error INSERT INTO blog_posts(title,body,images) ends with, "none" if none.
InsertPostError(title, body, images) ==
    IF ~VarcharAssign(title, TitleMax).ok THEN "value_too_long"
    ELSE IF ArrayValue(images).null THEN "not_null"
    ELSE "none"

\* The row that INSERT stores.
InsertPostRow(id, title, body, images, date) ==
    [id |-> id, title |-> VarcharAssign(title, TitleMax).val, body |-> body,
     images |-> ArrayValue(images), date |-> date]

ScanPost_columns(row) ==
    [ID |-> row.id, Title |-> row.body, Text |-> row.title,
     Images |-> ArrayScan(row.images), Date |-> row.date]

\* Scan of one blog_posts row into a Post.
ScanPost(row) ==
    [ID |-> row.id, Title |-> row.title, Text |-> row.body,
     Images |-> ArrayScan(row.images), Date |-> row.date]

(***************************************************************************)
(* Request inputs.                                                         *)
(***************************************************************************)
FileA1 == [filename |-> <<"a", ".", "p", "n", "g">>, data |-> "d1"]
FileA2 == [filename |-> <<"a", ".", "p", "n", "g">>, data |-> "d2"]
FileB == [filename |-> <<"n", "o", "t", "e", "s">>, data |-> "d3"]

\* The /create/post forms the requests are drawn from: an empty title and body
\* with no file; a title of exactly 200 characters; one of 201 whose last is a
\* space; one of 201 with no space; files of the same name and of no extension.
Forms ==
    {[title |-> Str(0, 0), body |-> Str(0, 0), files |-> <<>>],
     [title |-> Str(0, 0), body |-> Str(201, 0), files |-> <<FileA1>>],
     [title |-> Str(199, 1), body |-> Str(0, 0), files |-> <<FileA1, FileA2>>],
     [title |-> Str(199, 2), body |-> Str(201, 0), files |-> <<FileB, FileA1>>],
     [title |-> Str(201, 0), body |-> Str(0, 0), files |-> <<FileA2>>]}

(***************************************************************************)
(* handleCreatePost                                                        *)
(***************************************************************************)
IdleWorker ==
    [pc |-> "idle", title |-> Str(0, 0), body |-> Str(0, 0), files |-> <<>>,
     nfiles |-> 0, paths |-> NilSlice, inserted |-> FALSE, code |-> 0,
     err |-> "none"]

Respond(w, code, err) ==
    cw' = [cw EXCEPT ![w] = [@ EXCEPT !.pc = "done", !.code = code, !.err = err]]

\* Lines 175-194: the method, the form and the credentials are checked, then
\* saveImages starts with no path yet.
handleCreatePost_begin(w) ==
    /\ cw[w].pc = "idle"
    /\ nreq < MaxRequests
    /\ nreq' = nreq + 1
    /\ \E method \in {"GET", "POST"}, parsed \in BOOLEAN, authorized \in BOOLEAN,
          form \in Forms :
          LET r == IdleWorker IN
          IF method # "POST"
          THEN cw' = [cw EXCEPT ![w] = [r EXCEPT !.pc = "done", !.code = 405]]
          ELSE IF ~parsed
          THEN cw' = [cw EXCEPT ![w] = [r EXCEPT !.pc = "done", !.code = 400]]
          ELSE IF ~authorized
          THEN cw' = [cw EXCEPT ![w] = [r EXCEPT !.pc = "done", !.code = 401]]
          ELSE cw' = [cw EXCEPT ![w] = [r EXCEPT !.pc = "save", !.title = form.title,
                                                 !.body = form.body,
                                                 !.files = form.files,
                                                 !.nfiles = Len(form.files)]]
    /\ UNCHANGED <<blog_posts, hello_letters, uploads, now, given, issued,
                   getRet, blog, mainRet, calc>>

SaveFailed_skip(w, err) ==
    cw' = [cw EXCEPT ![w].files =
              SubSeq(@, 1, Len(cw[w].paths.elems)) \o
              SubSeq(@, Len(cw[w].paths.elems) + 2, Len(@))]

\* What handleCreatePost does with saveImages' error (lines 196-200).
SaveFailed(w, err) == Respond(w, 500, err)

\* One iteration of saveImages' loop (lines 321-339) for the next file.
saveImages_file(w) ==
    /\ cw[w].pc = "save"
    /\ Len(cw[w].paths.elems) < Len(cw[w].files)
    /\ now < MaxClock
    /\ LET fh == cw[w].files[Len(cw[w].paths.elems) + 1] IN
       \E t \in {now, now + 1}, outcome \in {"ok", "io_open", "io_create", "io_copy"} :
          LET name == UploadName(t, fh.filename) IN
          /\ now' = IF outcome = "io_open" THEN now ELSE t
          /\ uploads' = CASE outcome = "ok" -> WriteFile(uploads, name, fh.data)
                          [] outcome = "io_copy" -> WriteFile(uploads, name, "partial")
                          [] OTHER -> uploads
          /\ IF outcome = "ok"
             THEN /\ cw' = [cw EXCEPT ![w].paths = GoAppend(@, UploadRef(name))]
                  /\ issued' = issued \cup
                        {[ref |-> UploadRef(name), data |-> fh.data]}
             ELSE /\ SaveFailed(w, outcome)
                  /\ UNCHANGED issued
    /\ UNCHANGED <<blog_posts, hello_letters, nreq, given, getRet, blog, mainRet, calc>>

\* insertPost (lines 234-237) once saveImages has returned its paths, and the
\* response of lines 201-205.
handleCreatePost_insert(w) ==
    /\ cw[w].pc = "save"
    /\ Len(cw[w].paths.elems) = Len(cw[w].files)
    /\ \E reachable \in BOOLEAN, date \in NowDates(blog_posts) :
          LET err == IF ~reachable THEN "backend"
                     ELSE InsertPostError(cw[w].title, cw[w].body, cw[w].paths)
          IN
          IF err # "none"
          THEN /\ Respond(w, 500, err)
               /\ UNCHANGED <<blog_posts, given>>
          ELSE /\ blog_posts' = Append(blog_posts,
                      InsertPostRow(Len(blog_posts) + 1, cw[w].title, cw[w].body, cw[w].paths, date))
               /\ given' = Append(given,
                      [title |-> cw[w].title, body |-> cw[w].body,
                       images |-> cw[w].paths.elems, nfiles |-> cw[w].nfiles])
               /\ cw' = [cw EXCEPT ![w] = [@ EXCEPT !.pc = "done", !.code = 302,
                                                    !.inserted = TRUE]]
    /\ UNCHANGED <<hello_letters, uploads, now, nreq, issued, getRet, blog,
                   mainRet, calc>>

\* The response has been written; the worker takes the next request.
handleCreatePost_end(w) ==
    /\ cw[w].pc = "done"
    /\ cw' = [cw EXCEPT ![w] = IdleWorker]
    /\ UNCHANGED <<blog_posts, hello_letters, uploads, now, nreq, given, issued,
                   getRet, blog, mainRet, calc>>

(***************************************************************************)
(* handleCreateLetter and insertMessage                                    *)
(***************************************************************************)
Names == {Str(1, 0), Str(44, 2), Str(46, 0)}
NamesBeside == {Str(1, 0)}

\* The error INSERT INTO hello_letters(name,email,message) ends with.
InsertMessageError(name, mail, message) ==
    IF ~VarcharAssign(name, NameMax).ok \/ ~VarcharAssign(mail, EmailMax).ok
    THEN "value_too_long"
    ELSE "none"

InsertMessageRow(id, name, mail, message, date) ==
    [id |-> id, name |-> VarcharAssign(name, NameMax).val,
     email |-> VarcharAssign(mail, EmailMax).val, message |-> message, date |-> date]

\* Lines 160-173 with insertMessage (lines 238-241): one INSERT.  A request of
\* another method, or one whose INSERT fails, leaves the table as it is.
handleCreateLetter(limit, names) ==
    /\ Len(hello_letters) < limit
    /\ \E method \in {"GET", "POST"}, reachable \in BOOLEAN, name \in names,
          date \in NowDates(hello_letters) :
          LET mail == Str(1, 0)
              message == Str(1, 0)
              err == IF ~reachable THEN "backend"
                     ELSE InsertMessageError(name, mail, message)
          IN
          IF method = "POST" /\ err = "none"
          THEN hello_letters' = Append(hello_letters,
                  InsertMessageRow(Len(hello_letters) + 1, name, mail, message, date))
          ELSE UNCHANGED hello_letters
    /\ UNCHANGED <<blog_posts, uploads, now, cw, nreq, given, issued, getRet,
                   blog, mainRet, calc>>

(***************************************************************************)
(* handlePost and getPost                                                  *)
(***************************************************************************)
NoPost == [ID |-> 0, Title |-> Str(0, 0), Text |-> Str(0, 0), Images |-> NilSlice,
           Date |-> 0]

NoGet == [id |-> 0, code |-> 0, err |-> "none", post |-> NoPost]

\* getPost (lines 242-247): the row of that id, scanned, or the error.
getPost(id, reachable) ==
    IF ~reachable THEN [err |-> "backend", post |-> NoPost]
    ELSE IF \E i \in 1..Len(blog_posts) : blog_posts[i].id = id
    THEN [err |-> "none",
          post |-> ScanPost(blog_posts[CHOOSE i \in 1..Len(blog_posts) :
                                           blog_posts[i].id = id])]
    ELSE [err |-> "no_rows", post |-> NoPost]

\* Lines 137-151.
handlePost ==
    /\ getRet = NoGet
    /\ \E method \in {"GET", "POST"}, id \in 1..(Len(blog_posts) + 1),
          reachable \in BOOLEAN :
          IF method # "GET"
          THEN getRet' = [NoGet EXCEPT !.id = id, !.code = 405]
          ELSE LET r == getPost(id, reachable) IN
               getRet' = [id |-> id, code |-> IF r.err # "none" THEN 404 ELSE 200,
                          err |-> r.err, post |-> r.post]
    /\ UNCHANGED <<blog_posts, hello_letters, uploads, now, cw, nreq, given,
                   issued, blog, mainRet, calc>>

\* The response has been written.
handlePost_end ==
    /\ getRet # NoGet
    /\ getRet' = NoGet
    /\ UNCHANGED <<blog_posts, hello_letters, uploads, now, cw, nreq, given,
                   issued, blog, mainRet, calc>>

(***************************************************************************)
(* Query results.  ORDER BY date DESC returns the rows in some order of    *)
(* non-increasing date; rows of equal date come in any order.              *)
(***************************************************************************)
Min(a, b) == IF a < b THEN a ELSE b

\* Every result SELECT ... ORDER BY date DESC LIMIT n can give for the rows
\* `left` of a table, given as the values its rows scan to.  Of the newest
\* rows that scan to the same value, taking one or another gives the same
\* results.
RECURSIVE QueryDesc(_, _, _)
QueryDesc(scanned, left, n) ==
    IF left = {} \/ n = 0 THEN {<<>>}
    ELSE LET newest == {i \in left :
                           \A j \in left : scanned[i].Date >= scanned[j].Date}
             firsts == {i \in newest :
                           \A j \in newest : scanned[j] = scanned[i] => i <= j}
         IN UNION {{<<scanned[i]>> \o rest :
                       rest \in QueryDesc(scanned, left \ {i}, n - 1)} :
                   i \in firsts}

\* Go's slice of the rows a loop of rows.Next appended: nil when there were none.
Appended(elems) ==
    IF elems = <<>> THEN NilSlice ELSE [isNil |-> FALSE, elems |-> elems]

(***************************************************************************)
(* insertPost called on its own, with references stored before.            *)
(***************************************************************************)
StoredRef == UploadRef(UploadName(1, FileA1.filename))

PostInputs ==
    {[title |-> Str(1, 0), body |-> Str(1, 0),
      images |-> GoAppend(NilSlice, StoredRef)],
     [title |-> Str(201, 0), body |-> Str(1, 0),
      images |-> GoAppend(NilSlice, StoredRef)]}

\* insertPost (lines 234-237): one INSERT.
insertPost ==
    /\ Len(blog_posts) < MaxPosts
    /\ \E in \in PostInputs, reachable \in BOOLEAN, date \in NowDates(blog_posts) :
          LET err == IF ~reachable THEN "backend"
                     ELSE InsertPostError(in.title, in.body, in.images)
          IN
          IF err # "none"
          THEN UNCHANGED <<blog_posts, given>>
          ELSE /\ blog_posts' = Append(blog_posts,
                      InsertPostRow(Len(blog_posts) + 1, in.title, in.body,
                                    in.images, date))
               /\ given' = Append(given,
                      [title |-> in.title, body |-> in.body,
                       images |-> in.images.elems,
                       nfiles |-> Len(in.images.elems)])
    /\ UNCHANGED <<hello_letters, uploads, now, cw, nreq, issued, getRet, blog,
                   mainRet, calc>>

(***************************************************************************)
(* handleBlog and getPostsPage                                             *)
(***************************************************************************)
NoBlog ==
    [pc |-> "idle", page |-> 0, size |-> 0, total |-> 0, countOk |-> FALSE,
     countAt |-> 0, rowsAt |-> 0, posts |-> NilSlice, retTotal |-> 0,
     err |-> "none", code |-> 0, last |-> 0]

\* The page sizes getPostsPage is called with: handleBlog's, and a smaller one.
PageSizes == {2, perPage}

\* Line 283: SELECT count(*) scanned into total; the error is dropped, and
\* total stays 0 when the query fails.
CountPosts(reachable) == IF reachable THEN Len(blog_posts) ELSE 0

Offset_next(page, size) == page * size

\* Line 287: the offset of a page.
Offset(page, size) == (page - 1) * size

SelectPage_clamped(table, page, size) ==
    LET lastStart == IF table = <<>> THEN 0
                     ELSE ((Len(table) - 1) \div size) * size
        o == Min(Offset(page, size), lastStart)
    IN
    {SubSeq(r, o + 1, Len(r)) :
        r \in QueryDesc([i \in 1..Len(table) |-> ScanPost(table[i])],
                         1..Len(table), o + size)}

\* Lines 285-300: the results SELECT ... ORDER BY date DESC LIMIT size OFFSET
\* Offset(page, size) can give, scanned into Posts.
SelectPage(table, page, size) ==
    {SubSeq(r, Offset(page, size) + 1, Len(r)) :
        r \in QueryDesc([i \in 1..Len(table) |-> ScanPost(table[i])],
                         1..Len(table), Offset(page, size) + size)}

LastPage_floor(total, size) == (total \div size) + 1

\* Line 128: the last page number.
LastPage(total, size) == (total + size - 1) \div size

\* Lines 113-123 and line 283: the method and the page number are checked and
\* getPostsPage counts the posts.
handleBlog_count ==
    /\ blog.pc = "idle"
    /\ \E method \in {"GET", "POST"}, query \in 0..MaxPage, size \in PageSizes,
          reachable \in BOOLEAN :
          IF method # "GET"
          THEN blog' = [NoBlog EXCEPT !.pc = "done", !.code = 405]
          ELSE blog' = [NoBlog EXCEPT !.pc = "counted",
                                      !.page = IF query < 1 THEN 1 ELSE query,
                                      !.size = size,
                                      !.total = CountPosts(reachable),
                                      !.countOk = reachable,
                                      !.countAt = Len(blog_posts)]
    /\ UNCHANGED <<blog_posts, hello_letters, uploads, now, cw, nreq, given,
                   issued, getRet, mainRet, calc>>

\* What getPostsPage returns (lines 288-301) and handleBlog answers (lines
\* 124-134): the query fails; or the rows stop coming after the first k; or
\* all the rows of the page are scanned.
BlogAnswer(outcome, posts, k) ==
    CASE outcome = "query" ->
            [blog EXCEPT !.pc = "done", !.rowsAt = Len(blog_posts),
                         !.posts = NilSlice, !.retTotal = 0, !.err = "backend",
                         !.code = 500]
      [] outcome = "rows" ->
            [blog EXCEPT !.pc = "done", !.rowsAt = Len(blog_posts),
                         !.posts = Appended(SubSeq(posts, 1, k)),
                         !.retTotal = blog.total, !.err = "backend", !.code = 500]
      [] OTHER ->
            [blog EXCEPT !.pc = "done", !.rowsAt = Len(blog_posts),
                         !.posts = Appended(posts),
                         !.retTotal = blog.total, !.err = "none", !.code = 200,
                         !.last = LastPage(blog.total, blog.size)]

\* Lines 285-301 and 124-134: the page's rows are read and the answer is made.
handleBlog_rows ==
    /\ blog.pc = "counted"
    /\ \E outcome \in {"ok", "query", "rows"} :
       \E posts \in IF outcome = "query" THEN {<<>>}
                    ELSE SelectPage(blog_posts, blog.page, blog.size) :
       \E k \in IF outcome = "rows" THEN 0..Len(posts) ELSE {Len(posts)} :
          blog' = BlogAnswer(outcome, posts, k)
    /\ UNCHANGED <<blog_posts, hello_letters, uploads, now, cw, nreq, given,
                   issued, getRet, mainRet, calc>>

\* The response has been written.
handleBlog_end ==
    /\ blog.pc = "done"
    /\ blog' = NoBlog
    /\ UNCHANGED <<blog_posts, hello_letters, uploads, now, cw, nreq, given,
                   issued, getRet, mainRet, calc>>

(***************************************************************************)
(* handleMain and getMessages                                              *)
(***************************************************************************)
NoMain ==
    [code |-> 0, at |-> 0, messages |-> NilSlice, err |-> "none", shown |-> <<>>]

ScanMessage(row) ==
    [Name |-> row.name, Email |-> row.email, Message |-> row.message,
     Date |-> row.date]

SelectMessages_all(table) ==
    QueryDesc([i \in 1..Len(table) |-> ScanMessage(table[i])], 1..Len(table),
              Len(table))

\* Lines 254-278: the results SELECT ... ORDER BY date DESC LIMIT 5 can give,
\* scanned.
SelectMessages(table) ==
    QueryDesc([i \in 1..Len(table) |-> ScanMessage(table[i])], 1..Len(table),
              MessagesLimit)

\* getMessages (lines 248-280): the query fails; or a row fails to scan; or the
\* rows stop coming after the first k, which are returned with the error; or
\* all the rows are returned.
getMessages(outcome, msgs, k) ==
    CASE outcome = "query" -> [messages |-> NilSlice, err |-> "query"]
      [] outcome = "scan" -> [messages |-> NilSlice, err |-> "scan"]
      [] outcome = "rows" ->
            [messages |-> Appended(SubSeq(msgs, 1, k)), err |-> "rows"]
      [] OTHER -> [messages |-> Appended(msgs), err |-> "none"]

MessagesShown_asReturned(ret) == ret.messages.elems

\* Lines 96-108: the list the page is rendered with.
MessagesShown(ret) == IF ret.err # "none" THEN <<>> ELSE ret.messages.elems

\* Lines 89-111.
handleMain ==
    /\ mainRet = NoMain
    /\ \E path \in {"/", "/other"} :
          IF path # "/"
          THEN mainRet' = [NoMain EXCEPT !.code = 404]
          ELSE \E outcome \in {"ok", "query", "scan", "rows"} :
               \E msgs \in IF outcome = "query" THEN {<<>>}
                           ELSE SelectMessages(hello_letters) :
               \E k \in IF outcome = "rows" THEN 0..Len(msgs) ELSE {Len(msgs)} :
                  LET ret == getMessages(outcome, msgs, k) IN
                  /\ outcome = "scan" => msgs # <<>>
                  /\ mainRet' = [code |-> 200, at |-> Len(hello_letters),
                                 messages |-> ret.messages, err |-> ret.err,
                                 shown |-> MessagesShown(ret)]
    /\ UNCHANGED <<blog_posts, hello_letters, uploads, now, cw, nreq, given,
                   issued, getRet, blog, calc>>

\* The response has been written.
handleMain_end ==
    /\ mainRet # NoMain
    /\ mainRet' = NoMain
    /\ UNCHANGED <<blog_posts, hello_letters, uploads, now, cw, nreq, given,
                   issued, getRet, blog, calc>>

(***************************************************************************)
(* The last-page computation of line 128 applied to a total and a size.    *)
(***************************************************************************)
lastPage ==
    /\ \E total \in 0..MaxTotal, size \in 1..MaxPageSize :
          calc' = [total |-> total, pageSize |-> size, last |-> LastPage(total, size)]
    /\ UNCHANGED <<blog_posts, hello_letters, uploads, now, cw, nreq, given,
                   issued, getRet, blog, mainRet>>

(***************************************************************************)
(* Initial state: createTables has run on an empty database.               *)
(***************************************************************************)
NoCalc == [total |-> 0, pageSize |-> 1, last |-> 0]

Init ==
    /\ blog_posts = <<>>
    /\ hello_letters = <<>>
    /\ uploads = <<>>
    /\ now = 1
    /\ cw = [w \in Workers |-> IdleWorker]
    /\ nreq = 0
    /\ given = <<>>
    /\ issued = {}
    /\ getRet = NoGet
    /\ blog = NoBlog
    /\ mainRet = NoMain
    /\ calc = NoCalc

(***************************************************************************)
(* Post creation: concurrent /create/post requests.                        *)
(***************************************************************************)
NextCreate ==
    \/ \E w \in Workers : handleCreatePost_begin(w)
    \/ \E w \in Workers : saveImages_file(w)
    \/ \E w \in Workers : handleCreatePost_insert(w)
    \/ \E w \in Workers : handleCreatePost_end(w)

SpecCreate == Init /\ [][NextCreate]_vars

(***************************************************************************)
(* The blog page read while posts are being created.                       *)
(***************************************************************************)
NextBlog ==
    \/ insertPost
    \/ handleBlog_count
    \/ handleBlog_rows
    \/ handleBlog_end

SpecBlog == Init /\ [][NextBlog]_vars

(***************************************************************************)
(* One client sending guest letters and reading the main page.             *)
(***************************************************************************)
NextLetters ==
    \/ mainRet = NoMain /\ handleCreateLetter(MaxLetters, Names)
    \/ handleMain
    \/ handleMain_end

SpecLetters == Init /\ [][NextLetters]_vars

(***************************************************************************)
(* The last-page computation on its own.                                   *)
(***************************************************************************)
NextCalc == lastPage

SpecCalc == Init /\ [][NextCalc]_vars

(***************************************************************************)
(* Claims about post creation.                                             *)
(***************************************************************************)
IoErrors == {"io_open", "io_create", "io_copy"}

RECURSIVE AllImages(_)
AllImages(rows) ==
    IF rows = <<>> THEN <<>> ELSE rows[1].images.elems \o AllImages(Tail(rows))

NoDuplicate(seq) == \A i, j \in 1..Len(seq) : seq[i] = seq[j] => i = j

\* The name of the file a reference points at: the reference less "/uploads/".
FileOf(ref) == Tail(ref)

\* C4: every reference saveImages returns is distinct from every other, within
\* one call and across concurrent calls, and the file behind each one still
\* holds the data that was stored under it.
C4_DistinctReferences ==
    /\ NoDuplicate(AllImages(blog_posts))
    /\ \A a, b \in issued : a.ref = b.ref => a = b
    /\ \A a \in issued :
          FileOf(a.ref) \in DOMAIN uploads /\ uploads[FileOf(a.ref)] = a.data

\* C5: a post row exists only for a request all of whose files were stored: it
\* holds as many references as the request had files; a request one of whose
\* files failed to open, to be created or to be written never ran insertPost
\* and is answered with a failure.
C5_AllOrNothing ==
    /\ \A i \in 1..Len(blog_posts) :
          Len(blog_posts[i].images.elems) = given[i].nfiles
    /\ \A w \in Workers :
          (cw[w].pc = "done" /\ cw[w].err \in IoErrors)
              => (~cw[w].inserted /\ cw[w].code = 500)
    /\ \A w \in Workers :
          cw[w].inserted => Len(cw[w].paths.elems) = cw[w].nfiles

\* C5's case: the second of two files failed to write after the first was stored.
C5_Witness ==
    \E w \in Workers :
        /\ cw[w].pc = "done" /\ cw[w].err = "io_copy"
        /\ cw[w].nfiles = 2 /\ Len(cw[w].paths.elems) = 1
        /\ FileOf(cw[w].paths.elems[1]) \in DOMAIN uploads
        /\ Len(blog_posts) >= 1

\* C6: an authorized create-post whose files were stored and whose INSERT
\* reached the backend is never answered with a failure, whatever its title,
\* body and list of files: a 500 comes only from file I/O or the backend.
C6_NoFieldConstraints ==
    \A w \in Workers :
        (cw[w].pc = "done" /\ cw[w].code = 500)
            => cw[w].err \in IoErrors \cup {"backend"}


(***************************************************************************)
(* One client: posts created one request after the other, read back        *)
(* through /post/<id>, with guest letters sent in between.  A request is   *)
(* sent once the response to the one before has arrived.                   *)
(***************************************************************************)
OneWorker == {1}

Answered == getRet = NoGet /\ \A w \in Workers : cw[w].pc = "idle"

NextRoundTrip ==
    \/ Answered /\ \E w \in OneWorker : handleCreatePost_begin(w)
    \/ \E w \in OneWorker : saveImages_file(w)
    \/ \E w \in OneWorker : handleCreatePost_insert(w)
    \/ \E w \in OneWorker : handleCreatePost_end(w)
    \/ Answered /\ handleCreateLetter(MaxLettersBeside, NamesBeside)
    \/ Answered /\ handlePost
    \/ handlePost_end

SpecRoundTrip == Init /\ [][NextRoundTrip]_vars

(***************************************************************************)
(* Claims about reading a post back.                                       *)
(***************************************************************************)
\* The first n characters of a string.
FirstChars(v, n) ==
    IF v.chars >= n THEN Str(n, 0)
    ELSE IF StrLen(v) >= n THEN Str(v.chars, n - v.chars)
    ELSE v

\* A /post/<id> request for a stored post that the backend answered.
ReadBack == getRet.code \notin {0, 405} /\ getRet.err # "backend"
            /\ getRet.id \in 1..Len(given)

Max(a, b) == IF a > b THEN a ELSE b

\* The posts that were stored when the page's rows were read.  Rows are only
\* ever appended, so these are the first rowsAt rows of the table.
PostsThen == SubSeq(blog_posts, 1, blog.rowsAt)

NewerThan(rows, d) == Cardinality({r \in 1..Len(rows) : rows[r].date > d})

NotOlderThan(rows, d) == Cardinality({r \in 1..Len(rows) : rows[r].date >= d})

C10_TotalMatchesPage ==
    (blog.pc = "done" /\ blog.code = 200 /\ blog.countOk) =>
        /\ Len(blog.posts.elems) =
              Min(blog.size, Max(0, blog.retTotal - (blog.page - 1) * blog.size))
        /\ Len(blog.posts.elems) > 0 => blog.last >= blog.page

(***************************************************************************)
(* Claims about the guest letters.                                         *)
(***************************************************************************)
\* The letters that were stored when the main page read them.
LettersThen == SubSeq(hello_letters, 1, mainRet.at)

Occurrences(seq, v) == Cardinality({i \in 1..Len(seq) : seq[i] = v})

AsMessage(row) ==
    [Name |-> row.name, Email |-> row.email, Message |-> row.message,
     Date |-> row.date]

\* C7: getMessages returns min(5, n) of the n stored messages, newest first:
\* each one is a stored message, none is returned more often than it is
\* stored, and no message left out is newer than one returned; the messages
\* left out of the window stay stored.
C7_RecentFive ==
    (mainRet.code = 200 /\ mainRet.err = "none") =>
        LET got == mainRet.messages.elems
            n == mainRet.at
        IN
        /\ Len(got) = Min(5, n)
        /\ mainRet.shown = got
        /\ \A i, j \in 1..Len(got) : i < j => got[i].Date >= got[j].Date
        /\ \A i \in 1..Len(got) :
              /\ \E r \in 1..n : AsMessage(LettersThen[r]) = got[i]
              /\ Occurrences(got, got[i]) <=
                    Occurrences([r \in 1..n |-> AsMessage(LettersThen[r])], got[i])
              /\ NewerThan(LettersThen, got[i].Date) <= i - 1
        /\ Len(hello_letters) >= n
        /\ \A r \in 1..Len(hello_letters) : hello_letters[r].id = r

\* C7's case: six messages of increasing dates are stored; the five newest
\* are returned and the oldest is not, and it is still stored.
C7_Witness ==
    /\ mainRet.code = 200 /\ mainRet.err = "none" /\ mainRet.at = 6
    /\ Len(hello_letters) = 6
    /\ \A r \in 1..5 : hello_letters[r].date < hello_letters[r + 1].date
    /\ Len(mainRet.messages.elems) = 5
    /\ mainRet.messages.elems[1].Date = hello_letters[6].date
    /\ mainRet.messages.elems[5].Date = hello_letters[2].date

\* C8: when getMessages returns an error, handleMain still answers with the
\* page, rendered with no message at all, never with the rows read so far.
C8_ErrorShowsNothing ==
    /\ mainRet.code \in {0, 200, 404}
    /\ (mainRet.code = 200 /\ mainRet.err # "none") => mainRet.shown = <<>>

\* C8's case: the rows stopped coming after two were read.
C8_Witness ==
    /\ mainRet.code = 200 /\ mainRet.err = "rows"
    /\ Len(mainRet.messages.elems) = 2
    /\ mainRet.shown = <<>>

(***************************************************************************)
(* Claims about the last page number.                                      *)
(***************************************************************************)
\* C9: the last page is the ceiling of total / pageSize: the least number of
\* pages of that size that hold total posts, which is 0 for no post.
C9_LastPageIsCeiling ==
    /\ calc.last >= 0
    /\ calc.last * calc.pageSize >= calc.total
    /\ (calc.last - 1) * calc.pageSize < calc.total
    /\ calc.total = 0 => calc.last = 0

\* C9's case: 7 posts in pages of 3 end on page 3.
C9_Witness == calc.total = 7 /\ calc.pageSize = 3 /\ calc.last = 3

====
